---- MODULE Spec2Model ----
(***************************************************************************)
(* Model of the Figma MCP server (src/src/index.ts, src/src/config.ts).    *)
(*                                                                         *)
(* Text is a sequence of tokens.  A token is a TLA+ string: a literal of   *)
(* the source is one token, a value whose characters the code inspects     *)
(* (PORT, file names, the mode selector) is one token per UTF-16 code      *)
(* unit: the character itself where TLA+ can write it (printable ASCII,    *)
(* "\t", "\n", "\f", "\r"), else "U+XXXX" with its four upper-case hex     *)
(* digits ("U+000B", "U+00A0", "U+D83D").                                  *)
(* A template literal `a${x}b` is the concatenation <<"a">> \o x \o <<"b">>*)
(*                                                                         *)
(* An environment variable or optional argument is a record                *)
(* [set |-> BOOLEAN, val |-> text]; undefined is Undefined.                *)
(***************************************************************************)
EXTENDS Integers, Sequences, FiniteSets, TLC

VARIABLES
  env,          \* process.env after dotenv has loaded
  pc,           \* position of the module body / startServer of index.ts
  serverMode,   \* local serverMode of startServer
  transport,    \* the StdioServerTransport of startServer
  exitCode,     \* process exit status (-1 while the process runs)
  startupError, \* the error thrown or logged by startup
  gatewaysBuilt,\* number of FigmaMcpServer instances startup has constructed
  cfgCall,      \* last getServerConfig call and its outcome
  gw,           \* the fields of one FigmaMcpServer instance
  logger,       \* the sink of the exported Logger object
  servers,      \* the http servers startHttpServer has created, oldest first
  connects,     \* connect() calls suspended at their await
  stopsResolved,\* stop() promises that have resolved
  served,       \* invocations the channel has delivered to a handler
  inv           \* the tool invocation being handled

vars == <<env, pc, serverMode, transport, exitCode, startupError, gatewaysBuilt,
          cfgCall, gw, logger, servers, connects, stopsResolved, served, inv>>

startupVars == <<pc, serverMode, transport, exitCode, startupError, gatewaysBuilt>>
gatewayVars == <<gw, logger, servers, connects, stopsResolved, served>>

\* ------------------------------------------------------------------ bounds
MaxPortLen == 3
MaxNodes == 2
MaxServed == 2
MaxServers == 2
MaxStops == 2
MaxPendingConnects == 1

\* ------------------------------------------------------------- JS values
Undefined == [set |-> FALSE, val |-> <<>>]

Str(s) == [set |-> TRUE, val |-> s]

\* JS truthiness of a string-or-undefined value
Truthy(v) == v.set /\ v.val # <<>>

Falsy(v) == ~Truthy(v)

\* a || b on string-or-undefined values, the result a text
OrElse(v, dflt) == IF Truthy(v) THEN v.val ELSE dflt

StringsUpTo(alphabet, n) == UNION {[1..k -> alphabet] : k \in 0..n}

STDIO == <<"s", "t", "d", "i", "o">>

HTTP == <<"h", "t", "t", "p">>

SSE == <<"s", "s", "e">>

\* ------------------------------------------------- config.ts: Number(PORT)
\* A JS number is NaN, an infinity, or a double neg * digits * 10^exp, with
\* digits the decimal digits of a natural that neither starts nor ends with 0
\* (empty for zero). Every double has exactly one such form, so two numbers are
\* equal exactly when the records are.
NaN == [kind |-> "nan", neg |-> FALSE, digits |-> <<>>, exp |-> 0]

Inf(neg) == [kind |-> "inf", neg |-> neg, digits |-> <<>>, exp |-> 0]

Zero(neg) == [kind |-> "num", neg |-> neg, digits |-> <<>>, exp |-> 0]

\* ---- naturals as sequences of decimal digits, most significant first and
\* without leading zeros (<<>> is 0)
\* the function f of domain 1..n as the sequence f[1], ..., f[n]
Digits(f) == SubSeq(f, 1, Len(f))

Zeros(k) == Digits([i \in 1..k |-> 0])

\* the least j in (i+1)..n with p[j]; 0 when there is none
FirstAfter(i, n, p) ==
  IF \E j \in (i + 1)..n : p[j]
  THEN CHOOSE j \in (i + 1)..n : p[j] /\ \A k \in (i + 1)..(j - 1) : ~p[k]
  ELSE 0

StripLeadingZeros(ds) ==
  LET j == FirstAfter(0, Len(ds), [k \in 1..Len(ds) |-> ds[k] # 0])
  IN IF j = 0 THEN <<>> ELSE SubSeq(ds, j, Len(ds))

\* the number of zeros ds ends with
TrailingZeros(ds) ==
  LET j == FirstAfter(0, Len(ds), [k \in 1..Len(ds) |-> ds[Len(ds) + 1 - k] # 0])
  IN IF j = 0 THEN Len(ds) ELSE j - 1

Pad(ds, n) == Zeros(n - Len(ds)) \o ds

Less(a, b) ==
  IF Len(a) # Len(b) THEN Len(a) < Len(b)
  ELSE LET j == FirstAfter(0, Len(a), [k \in 1..Len(a) |-> a[k] # b[k]])
       IN j # 0 /\ a[j] < b[j]

\* a + b: the carry into a position is decided by the first less significant
\* position whose digits do not add up to 9
Plus(a, b) ==
  LET n == IF Len(a) < Len(b) THEN Len(b) ELSE Len(a)
      x == Pad(a, n)
      y == Pad(b, n)
      Carry(i) == LET j == FirstAfter(i, n, [k \in 1..n |-> x[k] + y[k] # 9])
                  IN IF j # 0 /\ x[j] + y[j] > 9 THEN 1 ELSE 0
  IN (IF Carry(0) = 1 THEN <<1>> ELSE <<>>)
       \o Digits([i \in 1..n |-> (x[i] + y[i] + Carry(i)) % 10])

\* a - b for a >= b: the borrow from a position is decided by the first less
\* significant position where the digits differ
Minus(a, b) ==
  LET n == Len(a)
      y == Pad(b, n)
      Borrow(i) == LET j == FirstAfter(i, n, [k \in 1..n |-> a[k] # y[k]])
                   IN IF j # 0 /\ a[j] < y[j] THEN 1 ELSE 0
  IN StripLeadingZeros(Digits([i \in 1..n |-> (a[i] - y[i] - Borrow(i) + 10) % 10]))

\* 2 * ds: a digit carries exactly when it is 5 or more
Double(ds) ==
  LET n == Len(ds)
      body == Digits([i \in 1..n |->
                 (2 * ds[i] + (IF i < n /\ ds[i + 1] >= 5 THEN 1 ELSE 0)) % 10])
  IN IF n > 0 /\ ds[1] >= 5 THEN <<1>> \o body ELSE body

\* ds / 2 rounded down: an odd digit hands 5 to the next
Halve(ds) ==
  LET h == Digits([i \in 1..Len(ds) |->
              ds[i] \div 2 + (IF i > 1 /\ ds[i - 1] % 2 = 1 THEN 5 ELSE 0)])
  IN IF h # <<>> /\ h[1] = 0 THEN Tail(h) ELSE h

\* ds * 2^k, by halving k
RECURSIVE TimesTwoTo(_, _)
TimesTwoTo(ds, k) ==
  IF k = 0 THEN ds
  ELSE IF k = 1 THEN Double(ds)
  ELSE LET half == TimesTwoTo(ds, k \div 2)
       IN IF Len(half) = 0 THEN <<>> ELSE TimesTwoTo(half, k - k \div 2)

\* ds * 5^k, by halving k
RECURSIVE TimesFiveTo(_, _)
TimesFiveTo(ds, k) ==
  IF k = 0 THEN ds
  ELSE IF k = 1 THEN Halve(ds \o <<0>>)
  ELSE LET half == TimesFiveTo(ds, k \div 2)
       IN IF Len(half) = 0 THEN <<>> ELSE TimesFiveTo(half, k - k \div 2)

RECURSIVE SmallDigits(_)
SmallDigits(n) == IF n = 0 THEN <<>> ELSE SmallDigits(n \div 10) \o <<n % 10>>

\* ---- the double nearest to a decimal
\* d1.d2d3... <= e1.e2e3... for digit sequences read as decimal fractions
FractionLeq(ds, es) ==
  LET n == IF Len(ds) < Len(es) THEN Len(ds) ELSE Len(es)
      j == FirstAfter(0, n, [k \in 1..n |-> ds[k] # es[k]])
  IN IF j = 0 THEN Len(ds) <= Len(es) ELSE ds[j] < es[j]

\* Every decimal digit of 2^1024 - 2^970 = 1.797693134862315807937...e308,
\* half way between the largest double and 2^1024: a literal at or above it
\* rounds to Infinity (ties go to the even significand), one below it does not.
OverflowDigits ==
  <<1, 7, 9, 7, 6, 9, 3, 1, 3, 4, 8, 6, 2, 3, 1, 5, 8, 0, 7, 9, 3, 7, 2, 8, 9, 7, 1, 4, 0, 5,
   3, 0, 3, 4, 1, 5, 0, 7, 9, 9, 3, 4, 1, 3, 2, 7, 1, 0, 0, 3, 7, 8, 2, 6, 9, 3, 6, 1, 7, 3,
   7, 7, 8, 9, 8, 0, 4, 4, 4, 9, 6, 8, 2, 9, 2, 7, 6, 4, 7, 5, 0, 9, 4, 6, 6, 4, 9, 0, 1, 7,
   9, 7, 7, 5, 8, 7, 2, 0, 7, 0, 9, 6, 3, 3, 0, 2, 8, 6, 4, 1, 6, 6, 9, 2, 8, 8, 7, 9, 1, 0,
   9, 4, 6, 5, 5, 5, 5, 4, 7, 8, 5, 1, 9, 4, 0, 4, 0, 2, 6, 3, 0, 6, 5, 7, 4, 8, 8, 6, 7, 1,
   5, 0, 5, 8, 2, 0, 6, 8, 1, 9, 0, 8, 9, 0, 2, 0, 0, 0, 7, 0, 8, 3, 8, 3, 6, 7, 6, 2, 7, 3,
   8, 5, 4, 8, 4, 5, 8, 1, 7, 7, 1, 1, 5, 3, 1, 7, 6, 4, 4, 7, 5, 7, 3, 0, 2, 7, 0, 0, 6, 9,
   8, 5, 5, 5, 7, 1, 3, 6, 6, 9, 5, 9, 6, 2, 2, 8, 4, 2, 9, 1, 4, 8, 1, 9, 8, 6, 0, 8, 3, 4,
   9, 3, 6, 4, 7, 5, 2, 9, 2, 7, 1, 9, 0, 7, 4, 1, 6, 8, 4, 4, 4, 3, 6, 5, 5, 1, 0, 7, 0, 4,
   3, 4, 2, 7, 1, 1, 5, 5, 9, 6, 9, 9, 5, 0, 8, 0, 9, 3, 0, 4, 2, 8, 8, 0, 1, 7, 7, 9, 0, 4,
   1, 7, 4, 4, 9, 7, 7, 9, 2>>

\* Every significant digit of 2^-1075 = 5^1075 * 10^-1075 =
\* 2.4703282292062327208...e-324, half way between 0 and the smallest double:
\* a literal at or below it rounds to 0, one above it does not.
UnderflowDigits ==
  <<2, 4, 7, 0, 3, 2, 8, 2, 2, 9, 2, 0, 6, 2, 3, 2, 7, 2, 0, 8, 8, 2, 8, 4, 3, 9, 6, 4, 3, 4,
   1, 1, 0, 6, 8, 6, 1, 8, 2, 5, 2, 9, 9, 0, 1, 3, 0, 7, 1, 6, 2, 3, 8, 2, 2, 1, 2, 7, 9, 2,
   8, 4, 1, 2, 5, 0, 3, 3, 7, 7, 5, 3, 6, 3, 5, 1, 0, 4, 3, 7, 5, 9, 3, 2, 6, 4, 9, 9, 1, 8,
   1, 8, 0, 8, 1, 7, 9, 9, 6, 1, 8, 9, 8, 9, 8, 2, 8, 2, 3, 4, 7, 7, 2, 2, 8, 5, 8, 8, 6, 5,
   4, 6, 3, 3, 2, 8, 3, 5, 5, 1, 7, 7, 9, 6, 9, 8, 9, 8, 1, 9, 9, 3, 8, 7, 3, 9, 8, 0, 0, 5,
   3, 9, 0, 9, 3, 9, 0, 6, 3, 1, 5, 0, 3, 5, 6, 5, 9, 5, 1, 5, 5, 7, 0, 2, 2, 6, 3, 9, 2, 2,
   9, 0, 8, 5, 8, 3, 9, 2, 4, 4, 9, 1, 0, 5, 1, 8, 4, 4, 3, 5, 9, 3, 1, 8, 0, 2, 8, 4, 9, 9,
   3, 6, 5, 3, 6, 1, 5, 2, 5, 0, 0, 3, 1, 9, 3, 7, 0, 4, 5, 7, 6, 7, 8, 2, 4, 9, 2, 1, 9, 3,
   6, 5, 6, 2, 3, 6, 6, 9, 8, 6, 3, 6, 5, 8, 4, 8, 0, 7, 5, 7, 0, 0, 1, 5, 8, 5, 7, 6, 9, 2,
   6, 9, 9, 0, 3, 7, 0, 6, 3, 1, 1, 9, 2, 8, 2, 7, 9, 5, 5, 8, 5, 5, 1, 3, 3, 2, 9, 2, 7, 8,
   3, 4, 3, 3, 8, 4, 0, 9, 3, 5, 1, 9, 7, 8, 0, 1, 5, 5, 3, 1, 2, 4, 6, 5, 9, 7, 2, 6, 3, 5,
   7, 9, 5, 7, 4, 6, 2, 2, 7, 6, 6, 4, 6, 5, 2, 7, 2, 8, 2, 7, 2, 2, 0, 0, 5, 6, 3, 7, 4, 0,
   0, 6, 4, 8, 5, 4, 9, 9, 9, 7, 7, 0, 9, 6, 5, 9, 9, 4, 7, 0, 4, 5, 4, 0, 2, 0, 8, 2, 8, 1,
   6, 6, 2, 2, 6, 2, 3, 7, 8, 5, 7, 3, 9, 3, 4, 5, 0, 7, 3, 6, 3, 3, 9, 0, 0, 7, 9, 6, 7, 7,
   6, 1, 9, 3, 0, 5, 7, 7, 5, 0, 6, 7, 4, 0, 1, 7, 6, 3, 2, 4, 6, 7, 3, 6, 0, 0, 9, 6, 8, 9,
   5, 1, 3, 4, 0, 5, 3, 5, 5, 3, 7, 4, 5, 8, 5, 1, 6, 6, 6, 1, 1, 3, 4, 2, 2, 3, 7, 6, 6, 6,
   7, 8, 6, 0, 4, 1, 6, 2, 1, 5, 9, 6, 8, 0, 4, 6, 1, 9, 1, 4, 4, 6, 7, 2, 9, 1, 8, 4, 0, 3,
   0, 0, 5, 3, 0, 0, 5, 7, 5, 3, 0, 8, 4, 9, 0, 4, 8, 7, 6, 5, 3, 9, 1, 7, 1, 1, 3, 8, 6, 5,
   9, 1, 6, 4, 6, 2, 3, 9, 5, 2, 4, 9, 1, 2, 6, 2, 3, 6, 5, 3, 8, 8, 1, 8, 7, 9, 6, 3, 6, 2,
   3, 9, 3, 7, 3, 2, 8, 0, 4, 2, 3, 8, 9, 1, 0, 1, 8, 6, 7, 2, 3, 4, 8, 4, 9, 7, 6, 6, 8, 2,
   3, 5, 0, 8, 9, 8, 6, 3, 3, 8, 8, 5, 8, 7, 9, 2, 5, 6, 2, 8, 3, 0, 2, 7, 5, 5, 9, 9, 5, 6,
   5, 7, 5, 2, 4, 4, 5, 5, 5, 0, 7, 2, 5, 5, 1, 8, 9, 3, 1, 3, 6, 9, 0, 8, 3, 6, 2, 5, 4, 7,
   7, 9, 1, 8, 6, 9, 4, 8, 6, 6, 7, 9, 9, 4, 9, 6, 8, 3, 2, 4, 0, 4, 9, 7, 0, 5, 8, 2, 1, 0,
   2, 8, 5, 1, 3, 1, 8, 5, 4, 5, 1, 3, 9, 6, 2, 1, 3, 8, 3, 7, 7, 2, 2, 8, 2, 6, 1, 4, 5, 4,
   3, 7, 6, 9, 3, 4, 1, 2, 5, 3, 2, 0, 9, 8, 5, 9, 1, 3, 2, 7, 6, 6, 7, 2, 3, 6, 3, 2, 8, 1,
   2, 5>>

MaxDecimalExponent == 308

MinDecimalExponent == -324

\* a double has a significand of 53 bits, which is at most 16 decimal digits
SignificandBits == 53

SignificandDigits == 16

\* the exponent of the smallest normal double, 2^-1022; below it the
\* significand loses a bit for each halving
MinExponent == -1022

\* an integer below 10^15 is below 2^53 and so is a double
ExactDigits == 15

\* log2(10) = 3.321928...: 10^m is at least 2^Log2Of(m) and less than
\* 2^(Log2Of(m) + 1)
Log2Of(m) == (m * 3321928) \div 1000000

\* a < b: a is doubled until b <= a < 2b; the value a/b * 2^t is kept
RECURSIVE ScaleUp(_, _, _)
ScaleUp(a, b, t) ==
  IF ~Less(a, b) THEN [a |-> a, b |-> b, t |-> t] ELSE ScaleUp(Double(a), b, t - 1)

\* b <= a: b is doubled until b <= a < 2b; the value a/b * 2^t is kept
RECURSIVE ScaleDown(_, _, _)
ScaleDown(a, b, t) ==
  IF Less(a, Double(b)) THEN [a |-> a, b |-> b, t |-> t] ELSE ScaleDown(a, Double(b), t + 1)

\* the same for a/b in [10^mag, 10^(mag + 1)), starting from the power of two
\* next to 10^mag
Scale(a, b, mag) ==
  LET t == Log2Of(mag)
      x == IF t < 0 THEN TimesTwoTo(a, 0 - t) ELSE a
      y == IF t > 0 THEN TimesTwoTo(b, t) ELSE b
  IN IF Less(x, y) THEN ScaleUp(x, y, t) ELSE ScaleDown(x, y, t)

\* 0 * b, 1 * b, ..., 9 * b
Multiples(b) ==
  [d \in 0..9 |->
     CASE d = 0 -> <<>> [] d = 1 -> b [] d = 2 -> Double(b)
       [] d = 3 -> Plus(Double(b), b) [] d = 4 -> TimesTwoTo(b, 2)
       [] d = 5 -> Halve(b \o <<0>>) [] d = 6 -> Double(Plus(Double(b), b))
       [] d = 7 -> Minus(TimesTwoTo(b, 3), b) [] d = 8 -> TimesTwoTo(b, 3)
       [] d = 9 -> Plus(TimesTwoTo(b, 3), b)]

\* the digit of the quotient at 10^i: the largest d with d * 10^i times the
\* divisor at most r
QuotientDigit(r, mult, i) ==
  CHOOSE d \in 0..9 :
    /\ d = 0 \/ ~Less(r, mult[d] \o Zeros(i))
    /\ d = 9 \/ Less(r, mult[d + 1] \o Zeros(i))

\* long division of r by the divisor whose multiples are given: the quotient's
\* digits at 10^i down to 10^0, and the remainder
RECURSIVE LongDivide(_, _, _)
LongDivide(r, mult, i) ==
  IF i < 0 THEN [q |-> <<>>, r |-> r]
  ELSE LET d == QuotientDigit(r, mult, i)
           rest == LongDivide(IF d = 0 THEN r ELSE Minus(r, mult[d] \o Zeros(i)), mult, i - 1)
       IN [q |-> <<d>> \o rest.q, r |-> rest.r]

\* neg * ds * 2^q with ds ending in no zero unless q >= 0, as a number
Binary(neg, ds, q) ==
  [kind |-> "num", neg |-> neg,
   digits |-> SubSeq(ds, 1, Len(ds) - TrailingZeros(ds)),
   exp |-> (IF q >= 0 THEN 0 ELSE q) + TrailingZeros(ds)]

\* the significand floor + r/(2b) rounded to the nearest integer, ties to the
\* even one, times 2^q
RoundHalfEven(neg, floor, r, b, q) ==
  LET odd == floor # <<>> /\ floor[Len(floor)] % 2 = 1
      up == Less(b, r) \/ (r = b /\ odd)
  IN IF q >= 0
     THEN Binary(neg, TimesTwoTo(IF up THEN Plus(floor, <<1>>) ELSE floor, q), q)
     ELSE Binary(neg, TimesFiveTo(IF up THEN Plus(floor, <<1>>) ELSE floor, 0 - q), q)

\* the double nearest to (s.a / s.b) * 2^s.t, for s.b <= s.a < 2 * s.b: the
\* significand has 53 bits, fewer for a subnormal, and is s.a * 2^bits /
\* (2 * s.b), rounded
Significand(neg, s) ==
  LET bits == IF s.t >= MinExponent THEN SignificandBits
              ELSE SignificandBits - (MinExponent - s.t)
      div == LongDivide(TimesTwoTo(s.a, bits), Multiples(Double(s.b)), SignificandDigits - 1)
  IN RoundHalfEven(neg, StripLeadingZeros(div.q), div.r, s.b, s.t + 1 - bits)

\* the double nearest to ds * 10^e, ties to the even significand, for
\* 2^-1075 < ds * 10^e < 2^1024 - 2^970 and ds without leading or trailing zeros
RoundToDouble(neg, ds, e) ==
  Significand(neg, Scale(IF e >= 0 THEN ds \o Zeros(e) ELSE ds,
                         IF e >= 0 THEN <<1>> ELSE <<1>> \o Zeros(0 - e),
                         e + Len(ds) - 1))

\* Number's value for the decimal neg * norm * 10^ex, norm without leading
\* or trailing zeros: the nearest double, an infinity past the largest one
Canonical(neg, norm, ex) ==
  LET mag == ex + Len(norm) - 1
  IN IF norm = <<>> THEN Zero(neg)
     ELSE IF mag > MaxDecimalExponent
             \/ (mag = MaxDecimalExponent /\ FractionLeq(OverflowDigits, norm))
          THEN Inf(neg)
     ELSE IF mag < MinDecimalExponent
             \/ (mag = MinDecimalExponent /\ FractionLeq(norm, UnderflowDigits))
          THEN Zero(neg)
     ELSE IF ex >= 0 /\ Len(norm) + ex <= ExactDigits
          THEN [kind |-> "num", neg |-> neg, digits |-> norm, exp |-> ex]
     ELSE RoundToDouble(neg, norm, ex)

\* Number's value for the decimal neg * ds * 10^e
Finite(neg, ds, e) ==
  LET lead == StripLeadingZeros(ds)
  IN Canonical(neg, SubSeq(lead, 1, Len(lead) - TrailingZeros(lead)), e + TrailingZeros(lead))

\* a non-negative integer literal of the model below 10^15 as a JS number
IntNum(n) ==
  [kind |-> "num", neg |-> FALSE,
   digits |-> SubSeq(SmallDigits(n), 1, Len(SmallDigits(n)) - TrailingZeros(SmallDigits(n))),
   exp |-> TrailingZeros(SmallDigits(n))]

\* n || dflt: NaN and both zeros are falsy
NonZero(n) == n.kind = "inf" \/ (n.kind = "num" /\ n.digits # <<>>)

\* the value of a digit of radix up to 16; -1 for any other character
HexVal(c) ==
  CASE c = "0" -> 0 [] c = "1" -> 1 [] c = "2" -> 2 [] c = "3" -> 3
    [] c = "4" -> 4 [] c = "5" -> 5 [] c = "6" -> 6 [] c = "7" -> 7
    [] c = "8" -> 8 [] c = "9" -> 9
    [] c \in {"a", "A"} -> 10 [] c \in {"b", "B"} -> 11 [] c \in {"c", "C"} -> 12
    [] c \in {"d", "D"} -> 13 [] c \in {"e", "E"} -> 14 [] c \in {"f", "F"} -> 15
    [] OTHER -> -1

\* StrWhiteSpaceChar: tab, line tabulation, form feed, the space separators,
\* the byte order mark and the line terminators
WhiteSpace ==
  {" ", "\t", "\n", "\r", "\f", "U+000B", "U+00A0", "U+1680", "U+2000", "U+2001", "U+2002",
   "U+2003", "U+2004", "U+2005", "U+2006", "U+2007", "U+2008", "U+2009", "U+200A",
   "U+2028", "U+2029", "U+202F", "U+205F", "U+3000", "U+FEFF"}

\* s without the white space it starts with
TrimStart(s) ==
  LET j == FirstAfter(0, Len(s), [k \in 1..Len(s) |-> s[k] \notin WhiteSpace])
  IN IF j = 0 THEN <<>> ELSE SubSeq(s, j, Len(s))

\* s without the white space it ends with
TrimEnd(s) ==
  LET j == FirstAfter(0, Len(s), [k \in 1..Len(s) |-> s[Len(s) + 1 - k] \notin WhiteSpace])
  IN IF j = 0 THEN <<>> ELSE SubSeq(s, 1, Len(s) + 1 - j)

\* the decimal digits of the numeral s of radix 2, 8, 10 or 16: a numeral of
\* radix 10 is its own digits, another is its upper half shifted plus its lower
RECURSIVE DigitsValue(_, _)
DigitsValue(s, radix) ==
  IF radix = 10 THEN StripLeadingZeros(Digits([i \in 1..Len(s) |-> HexVal(s[i])]))
  ELSE IF s = <<>> THEN <<>>
  ELSE IF Len(s) = 1 THEN SmallDigits(HexVal(s[1]))
  ELSE LET h == Len(s) \div 2
           upper == DigitsValue(SubSeq(s, 1, h), radix)
           lower == DigitsValue(SubSeq(s, h + 1, Len(s)), radix)
       IN IF Len(upper) + Len(lower) < 0 THEN <<>>
          ELSE Plus(TimesTwoTo(upper, (IF radix = 2 THEN 1 ELSE IF radix = 8 THEN 3 ELSE 4)
                                        * (Len(s) - h)),
                    lower)

AllDigits(s, radix) ==
  \A i \in 1..Len(s) : HexVal(s[i]) >= 0 /\ HexVal(s[i]) < radix

\* index of the first element of s in cs, 0 when there is none
FirstIndex(s, cs) == FirstAfter(0, Len(s), [k \in 1..Len(s) |-> s[k] \in cs])

\* 2^30. A string of the engine Node runs on has fewer than 2^29 characters,
\* so no mantissa is long enough to bring an exponent of this size back into
\* the range of a double: saturating here changes no result.
ExponentCap == 1073741824

RECURSIVE DigitsInt(_)
DigitsInt(ds) ==
  IF ds = <<>> THEN 0 ELSE DigitsInt(SubSeq(ds, 1, Len(ds) - 1)) * 10 + ds[Len(ds)]

\* the value of an exponent's digits, saturated at ExponentCap
ExponentValue(s) ==
  LET ds == DigitsValue(s, 10)
  IN IF Len(ds) >= Len(SmallDigits(ExponentCap)) /\ ~Less(ds, SmallDigits(ExponentCap))
     THEN ExponentCap
     ELSE DigitsInt(ds)

\* StrUnsignedDecimalLiteral other than Infinity: digits, an optional
\* fraction, an optional exponent, with a digit before or after the point
UnsignedDecimal(neg, u) ==
  LET ePos == FirstIndex(u, {"e", "E"})
      mant == IF ePos = 0 THEN u ELSE SubSeq(u, 1, ePos - 1)
      expo == IF ePos = 0 THEN <<>> ELSE SubSeq(u, ePos + 1, Len(u))
      eSigned == expo # <<>> /\ Head(expo) \in {"-", "+"}
      eDigits == IF eSigned THEN Tail(expo) ELSE expo
      eOk == ePos = 0 \/ (eDigits # <<>> /\ AllDigits(eDigits, 10))
      eVal == IF ePos = 0 \/ ~eOk THEN 0
              ELSE IF eSigned /\ Head(expo) = "-"
                   THEN 0 - ExponentValue(eDigits)
                   ELSE ExponentValue(eDigits)
      dot == FirstIndex(mant, {"."})
      whole == IF dot = 0 THEN mant ELSE SubSeq(mant, 1, dot - 1)
      frac == IF dot = 0 THEN <<>> ELSE SubSeq(mant, dot + 1, Len(mant))
      mOk == AllDigits(whole, 10) /\ AllDigits(frac, 10) /\ Len(whole) + Len(frac) > 0
  IN IF eOk /\ mOk
     THEN Finite(neg, DigitsValue(whole \o frac, 10), eVal - Len(frac))
     ELSE NaN

InfinityText == <<"I", "n", "f", "i", "n", "i", "t", "y">>

RadixOf(c) ==
  IF c \in {"x", "X"} THEN 16 ELSE IF c \in {"b", "B"} THEN 2
  ELSE IF c \in {"o", "O"} THEN 8 ELSE 0

\* Number(v) for v a string or undefined (StringToNumber): white space is
\* trimmed; the empty string is 0; 0x, 0b and 0o numerals take no sign;
\* Infinity and decimal literals take an optional sign; anything else is NaN.
ToNumber(v) ==
  IF ~v.set THEN NaN
  ELSE LET t == TrimEnd(TrimStart(v.val))
           signed == t # <<>> /\ Head(t) \in {"-", "+"}
           neg == signed /\ Head(t) = "-"
           u == IF signed THEN Tail(t) ELSE t
       IN IF t = <<>> THEN Zero(FALSE)
          ELSE IF Len(t) >= 2 /\ t[1] = "0" /\ RadixOf(t[2]) # 0
               THEN LET body == SubSeq(t, 3, Len(t))
                    IN IF body # <<>> /\ AllDigits(body, RadixOf(t[2]))
                       THEN Finite(FALSE, DigitsValue(body, RadixOf(t[2])), 0)
                       ELSE NaN
          ELSE IF u = InfinityText THEN Inf(neg)
          ELSE UnsignedDecimal(neg, u)

DefaultPort == 3000

\* the ternary's test dropped: PORT wins in stdio mode too
PortStdioIgnoredMutant(e, isStdioMode) ==
  LET n == ToNumber(e.PORT)
  IN IF NonZero(n) THEN n ELSE IF isStdioMode THEN IntNum(0) ELSE IntNum(DefaultPort)

\* config.ts 27: isStdioMode ? 0 : Number(process.env.PORT) || 3000
PortOf(e, isStdioMode) ==
  IF isStdioMode THEN IntNum(0)
  ELSE LET n == ToNumber(e.PORT)
       IN IF NonZero(n) THEN n ELSE IntNum(DefaultPort)

\* getServerConfig(isStdioMode): the thrown error or the returned config
getServerConfig(e, isStdioMode) ==
  IF Falsy(e.FIGMA_API_KEY)
  THEN [threw |-> TRUE, message |-> <<"FIGMA_API_KEY is not set">>,
        figmaApiKey |-> <<>>, port |-> IntNum(0)]
  ELSE [threw |-> FALSE, message |-> <<>>,
        figmaApiKey |-> e.FIGMA_API_KEY.val, port |-> PortOf(e, isStdioMode)]

\* ------------------------------------------------------------ input sets
KeyValues == {Undefined, Str(<<>>), Str(<<"k">>)}

ModeValues == {Undefined, Str(<<>>), Str(STDIO), Str(HTTP), Str(SSE)}

PortAlphabet == {"0", "1", "8", "-", "+", " ", "a", "e", ".", "x"}

\* 1.797693134862315807937e308: above the largest double, below the half-way
\* point to 2^1024
NearMaxText ==
  <<"1", ".", "7", "9", "7", "6", "9", "3", "1", "3", "4", "8", "6", "2", "3", "1", "5",
    "8", "0", "7", "9", "3", "7", "e", "3", "0", "8">>

\* 2.47032822920623272081e-324: above 0, below half the smallest double
NearZeroText ==
  <<"2", ".", "4", "7", "0", "3", "2", "8", "2", "2", "9", "2", "0", "6", "2", "3", "2",
    "7", "2", "0", "8", "1", "e", "-", "3", "2", "4">>

\* values past the length bound: Infinity, other radices, other white space,
\* the ends of the range of a double
PortExtras == {Str(NearMaxText), Str(<<"-">> \o NearMaxText), Str(NearZeroText),
               Str(InfinityText), Str(<<"-">> \o InfinityText), Str(<<"0", "b", "1", "0", "1">>),
               Str(<<"0", "O", "1", "7">>), Str(<<"0", "X", "f", "F">>),
               Str(<<"-", "0", "x", "1">>), Str(<<"\t", "8", "0", "8", "0", "\n">>),
               Str(<<"U+00A0", "8">>), Str(<<"1", "E", "3">>), Str(<<"2", "e", "3", "0", "8">>),
               Str(<<"1", "e", "3", "0", "8">>), Str(<<"1", "e", "-", "3", "2", "4">>),
               Str(<<"3", "e", "-", "3", "2", "4">>), Str(<<"0", ".", "0", "0">>),
               Str(<<"1", "2", ".", "5", "0">>), Str(<<"i", "n", "f", "i", "n", "i", "t", "y">>)}

PortValues ==
  {Undefined} \cup {Str(s) : s \in StringsUpTo(PortAlphabet, MaxPortLen)} \cup PortExtras

NoCall == [called |-> FALSE, isStdioMode |-> FALSE,
           result |-> [threw |-> FALSE, message |-> <<>>, figmaApiKey |-> <<>>,
                       port |-> IntNum(0)]]

IdleStartup ==
  /\ pc = "load"
  /\ serverMode = <<>>
  /\ transport = "none"
  /\ exitCode = -1
  /\ startupError = <<>>
  /\ gatewaysBuilt = 0

\* httpServer is 0 for undefined, else the index in servers of the server held
NoGateway == [created |-> FALSE, figmaApiKey |-> <<>>, tools |-> {}, channel |-> "none",
              httpServer |-> 0, sseTransport |-> "null"]

IdleGateway ==
  /\ gw = NoGateway
  /\ logger = "noop"
  /\ servers = <<>>
  /\ connects = 0
  /\ stopsResolved = 0
  /\ served = 0

NoInvocation == [pc |-> "idle"]

\* =================================================================
\* getServerConfig as a program: the environment is drawn, then read
\* =================================================================
InitConfig ==
  /\ env \in [AZTP_API_KEY : {Str(<<"k">>)}, MCP_NAME : {Str(<<"n">>)},
              FIGMA_API_KEY : KeyValues, SERVER_MODE : {Undefined},
              PORT : PortValues]
  /\ cfgCall = NoCall
  /\ IdleStartup
  /\ IdleGateway
  /\ inv = NoInvocation

GetServerConfig(isStdioMode) ==
  /\ cfgCall' = [called |-> TRUE, isStdioMode |-> isStdioMode,
                 result |-> getServerConfig(env, isStdioMode)]
  /\ UNCHANGED <<env, startupVars, gatewayVars, inv>>

NextConfig == \E b \in BOOLEAN : GetServerConfig(b)

SpecConfig == InitConfig /\ [][NextConfig]_vars

\* Number.MAX_VALUE = (2^53 - 1) * 2^971, the largest double: every digit
MaxValueDigits ==
  <<1, 7, 9, 7, 6, 9, 3, 1, 3, 4, 8, 6, 2, 3, 1, 5, 7, 0, 8, 1, 4, 5, 2, 7, 4, 2, 3, 7, 3, 1, 7,
    0, 4, 3, 5, 6, 7, 9, 8, 0, 7, 0, 5, 6, 7, 5, 2, 5, 8, 4, 4, 9, 9, 6, 5, 9, 8, 9, 1, 7, 4, 7,
    6, 8, 0, 3, 1, 5, 7, 2, 6, 0, 7, 8, 0, 0, 2, 8, 5, 3, 8, 7, 6, 0, 5, 8, 9, 5, 5, 8, 6, 3, 2,
    7, 6, 6, 8, 7, 8, 1, 7, 1, 5, 4, 0, 4, 5, 8, 9, 5, 3, 5, 1, 4, 3, 8, 2, 4, 6, 4, 2, 3, 4, 3,
    2, 1, 3, 2, 6, 8, 8, 9, 4, 6, 4, 1, 8, 2, 7, 6, 8, 4, 6, 7, 5, 4, 6, 7, 0, 3, 5, 3, 7, 5, 1,
    6, 9, 8, 6, 0, 4, 9, 9, 1, 0, 5, 7, 6, 5, 5, 1, 2, 8, 2, 0, 7, 6, 2, 4, 5, 4, 9, 0, 0, 9, 0,
    3, 8, 9, 3, 2, 8, 9, 4, 4, 0, 7, 5, 8, 6, 8, 5, 0, 8, 4, 5, 5, 1, 3, 3, 9, 4, 2, 3, 0, 4, 5,
    8, 3, 2, 3, 6, 9, 0, 3, 2, 2, 2, 9, 4, 8, 1, 6, 5, 8, 0, 8, 5, 5, 9, 3, 3, 2, 1, 2, 3, 3, 4,
    8, 2, 7, 4, 7, 9, 7, 8, 2, 6, 2, 0, 4, 1, 4, 4, 7, 2, 3, 1, 6, 8, 7, 3, 8, 1, 7, 7, 1, 8, 0,
    9, 1, 9, 2, 9, 9, 8, 8, 1, 2, 5, 0, 4, 0, 4, 0, 2, 6, 1, 8, 4, 1, 2, 4, 8, 5, 8, 3, 6, 8>>

\* Number.MIN_VALUE = 2^-1074 = 5^1074 * 10^-1074, the smallest double above
\* 0: every digit of 5^1074
MinValueDigits ==
  <<4, 9, 4, 0, 6, 5, 6, 4, 5, 8, 4, 1, 2, 4, 6, 5, 4, 4, 1, 7, 6, 5, 6, 8, 7, 9, 2, 8, 6, 8, 2,
    2, 1, 3, 7, 2, 3, 6, 5, 0, 5, 9, 8, 0, 2, 6, 1, 4, 3, 2, 4, 7, 6, 4, 4, 2, 5, 5, 8, 5, 6, 8,
    2, 5, 0, 0, 6, 7, 5, 5, 0, 7, 2, 7, 0, 2, 0, 8, 7, 5, 1, 8, 6, 5, 2, 9, 9, 8, 3, 6, 3, 6, 1,
    6, 3, 5, 9, 9, 2, 3, 7, 9, 7, 9, 6, 5, 6, 4, 6, 9, 5, 4, 4, 5, 7, 1, 7, 7, 3, 0, 9, 2, 6, 6,
    5, 6, 7, 1, 0, 3, 5, 5, 9, 3, 9, 7, 9, 6, 3, 9, 8, 7, 7, 4, 7, 9, 6, 0, 1, 0, 7, 8, 1, 8, 7,
    8, 1, 2, 6, 3, 0, 0, 7, 1, 3, 1, 9, 0, 3, 1, 1, 4, 0, 4, 5, 2, 7, 8, 4, 5, 8, 1, 7, 1, 6, 7,
    8, 4, 8, 9, 8, 2, 1, 0, 3, 6, 8, 8, 7, 1, 8, 6, 3, 6, 0, 5, 6, 9, 9, 8, 7, 3, 0, 7, 2, 3, 0,
    5, 0, 0, 0, 6, 3, 8, 7, 4, 0, 9, 1, 5, 3, 5, 6, 4, 9, 8, 4, 3, 8, 7, 3, 1, 2, 4, 7, 3, 3, 9,
    7, 2, 7, 3, 1, 6, 9, 6, 1, 5, 1, 4, 0, 0, 3, 1, 7, 1, 5, 3, 8, 5, 3, 9, 8, 0, 7, 4, 1, 2, 6,
    2, 3, 8, 5, 6, 5, 5, 9, 1, 1, 7, 1, 0, 2, 6, 6, 5, 8, 5, 5, 6, 6, 8, 6, 7, 6, 8, 1, 8, 7, 0,
    3, 9, 5, 6, 0, 3, 1, 0, 6, 2, 4, 9, 3, 1, 9, 4, 5, 2, 7, 1, 5, 9, 1, 4, 9, 2, 4, 5, 5, 3, 2,
    9, 3, 0, 5, 4, 5, 6, 5, 4, 4, 4, 0, 1, 1, 2, 7, 4, 8, 0, 1, 2, 9, 7, 0, 9, 9, 9, 9, 5, 4, 1,
    9, 3, 1, 9, 8, 9, 4, 0, 9, 0, 8, 0, 4, 1, 6, 5, 6, 3, 3, 2, 4, 5, 2, 4, 7, 5, 7, 1, 4, 7, 8,
    6, 9, 0, 1, 4, 7, 2, 6, 7, 8, 0, 1, 5, 9, 3, 5, 5, 2, 3, 8, 6, 1, 1, 5, 5, 0, 1, 3, 4, 8, 0,
    3, 5, 2, 6, 4, 9, 3, 4, 7, 2, 0, 1, 9, 3, 7, 9, 0, 2, 6, 8, 1, 0, 7, 1, 0, 7, 4, 9, 1, 7, 0,
    3, 3, 3, 2, 2, 2, 6, 8, 4, 4, 7, 5, 3, 3, 3, 5, 7, 2, 0, 8, 3, 2, 4, 3, 1, 9, 3, 6, 0, 9, 2,
    3, 8, 2, 8, 9, 3, 4, 5, 8, 3, 6, 8, 0, 6, 0, 1, 0, 6, 0, 1, 1, 5, 0, 6, 1, 6, 9, 8, 0, 9, 7,
    5, 3, 0, 7, 8, 3, 4, 2, 2, 7, 7, 3, 1, 8, 3, 2, 9, 2, 4, 7, 9, 0, 4, 9, 8, 2, 5, 2, 4, 7, 3,
    0, 7, 7, 6, 3, 7, 5, 9, 2, 7, 2, 4, 7, 8, 7, 4, 6, 5, 6, 0, 8, 4, 7, 7, 8, 2, 0, 3, 7, 3, 4,
    4, 6, 9, 6, 9, 9, 5, 3, 3, 6, 4, 7, 0, 1, 7, 9, 7, 2, 6, 7, 7, 7, 1, 7, 5, 8, 5, 1, 2, 5, 6,
    6, 0, 5, 5, 1, 1, 9, 9, 1, 3, 1, 5, 0, 4, 8, 9, 1, 1, 0, 1, 4, 5, 1, 0, 3, 7, 8, 6, 2, 7, 3,
    8, 1, 6, 7, 2, 5, 0, 9, 5, 5, 8, 3, 7, 3, 8, 9, 7, 3, 3, 5, 9, 8, 9, 9, 3, 6, 6, 4, 8, 0, 9,
    9, 4, 1, 1, 6, 4, 2, 0, 5, 7, 0, 2, 6, 3, 7, 0, 9, 0, 2, 7, 9, 2, 4, 2, 7, 6, 7, 5, 4, 4, 5,
    6, 5, 2, 2, 9, 0, 8, 7, 5, 3, 8, 6, 8, 2, 5, 0, 6, 4, 1, 9, 7, 1, 8, 2, 6, 5, 5, 3, 3, 4, 4,
    7, 2, 6, 5, 6, 2, 5>>

\* what a getServerConfig call has returned or thrown, case by case; the
\* expected ports are written out, not computed
C8_Result ==
  cfgCall.called =>
    LET r == cfgCall.result
        P(text) == env.PORT = Str(text)
        Port(neg, ds, e) == [kind |-> "num", neg |-> neg, digits |-> ds, exp |-> e]
        Default == Port(FALSE, <<3>>, 3)
        text == IF env.PORT.set THEN env.PORT.val ELSE <<>>
        Has(c) == \E i \in 1..Len(text) : text[i] = c
        \* the value of a numeral of the digits 0, 1 and 8
        Plain == text # <<>> /\ \A i \in 1..Len(text) : text[i] \in {"0", "1", "8"}
        DigitOf(c) == IF c = "1" THEN 1 ELSE IF c = "8" THEN 8 ELSE 0
        ValueFrom(i) == LET F[j \in i..(Len(text) + 1)] ==
                              IF j > Len(text) THEN 0
                              ELSE DigitOf(text[j]) * 10 ^ (Len(text) - j) + F[j + 1]
                        IN F[i]
    IN /\ Falsy(env.FIGMA_API_KEY) =>
            r.threw /\ r.message # <<>> /\ r.figmaApiKey = <<>> /\ r.port = Zero(FALSE)
       /\ Truthy(env.FIGMA_API_KEY) =>
            /\ ~r.threw
            /\ r.figmaApiKey = env.FIGMA_API_KEY.val
            /\ cfgCall.isStdioMode => r.port = Zero(FALSE)
            /\ ~cfgCall.isStdioMode =>
                 \* never NaN and never a zero
                 /\ r.port.kind \in {"num", "inf"}
                 /\ r.port.kind = "num" => r.port.digits # <<>>
                 \* the digits of a number neither start nor end with 0
                 /\ r.port.kind = "num" =>
                      r.port.digits[1] # 0 /\ r.port.digits[Len(r.port.digits)] # 0
                 \* a numeral of decimal digits is its value, 3000 when that is 0
                 /\ Plain /\ Len(text) <= 9 =>
                      /\ r.port.kind = "num" /\ ~r.port.neg /\ r.port.exp >= 0
                      /\ DigitsInt(r.port.digits) * 10 ^ r.port.exp =
                           (IF ValueFrom(1) = 0 THEN 3000 ELSE ValueFrom(1))
                 \* a letter that is not a hex digit of a 0x numeral, the exponent
                 \* mark or part of Infinity makes PORT non-numeric
                 /\ Has("a") /\ ~Has("x") => r.port = Default
                 /\ Has("x") /\ ~(\E i \in 1..(Len(text) - 2) :
                                     text[i] = "0" /\ text[i + 1] = "x") =>
                      r.port = Default
                 /\ env.PORT \in {Undefined, Str(<<>>), Str(<<"a">>), Str(<<"0">>),
                                  Str(<<" ">>), Str(<<"-">>), Str(<<"1", "a">>),
                                  Str(<<"-", "0">>), Str(<<"e", "1">>), Str(<<"1", "e">>),
                                  Str(<<".">>), Str(<<"0", "x">>), Str(<<"1", " ", "1">>),
                                  Str(<<"0", "0", "0">>), Str(<<"0", "e", "8">>),
                                  Str(<<"1", "-", "1">>), Str(<<"+", "-", "1">>),
                                  Str(<<"1", ".", ".">>), Str(<<"e">>), Str(<<".", "e", "1">>),
                                  Str(<<"-", "0", "x", "1">>), Str(<<"0", ".", "0", "0">>),
                                  Str(<<"1", "e", "-", "3", "2", "4">>),
                                  Str(NearZeroText),
                                  Str(<<"i", "n", "f", "i", "n", "i", "t", "y">>)}
                      => r.port = Default
                 /\ P(<<"8", "0">>) => r.port = Port(FALSE, <<8>>, 1)
                 /\ P(<<"8", "1">>) => r.port = Port(FALSE, <<8, 1>>, 0)
                 /\ P(<<"1", "0", "8">>) => r.port = Port(FALSE, <<1, 0, 8>>, 0)
                 /\ P(<<" ", "8">>) => r.port = Port(FALSE, <<8>>, 0)
                 /\ P(<<"8", " ">>) => r.port = Port(FALSE, <<8>>, 0)
                 /\ P(<<"0", "8">>) => r.port = Port(FALSE, <<8>>, 0)
                 /\ P(<<"+", "1", "0">>) => r.port = Port(FALSE, <<1>>, 1)
                 /\ P(<<"1", "e", "1">>) => r.port = Port(FALSE, <<1>>, 1)
                 /\ P(<<"1", "e", "8">>) => r.port = Port(FALSE, <<1>>, 8)
                 /\ P(<<"1", "E", "3">>) => r.port = Port(FALSE, <<1>>, 3)
                 /\ P(<<"1", ".">>) => r.port = Port(FALSE, <<1>>, 0)
                 /\ P(<<"0", "x", "1">>) => r.port = Port(FALSE, <<1>>, 0)
                 /\ P(<<"0", "x", "a">>) => r.port = Port(FALSE, <<1>>, 1)
                 /\ P(<<"0", "x", "e">>) => r.port = Port(FALSE, <<1, 4>>, 0)
                 /\ P(<<"0", "X", "f", "F">>) => r.port = Port(FALSE, <<2, 5, 5>>, 0)
                 /\ P(<<"0", "b", "1", "0", "1">>) => r.port = Port(FALSE, <<5>>, 0)
                 /\ P(<<"0", "O", "1", "7">>) => r.port = Port(FALSE, <<1, 5>>, 0)
                 /\ P(<<"\t", "8", "0", "8", "0", "\n">>) => r.port = Port(FALSE, <<8, 0, 8>>, 1)
                 /\ P(<<"U+00A0", "8">>) => r.port = Port(FALSE, <<8>>, 0)
                 /\ P(<<"-", "1">>) => r.port = Port(TRUE, <<1>>, 0)
                 /\ P(<<"-", "8", "0">>) => r.port = Port(TRUE, <<8>>, 1)
                 /\ P(<<"1", ".", "8">>) =>
                      r.port = Port(FALSE,
                                    <<1, 8, 0, 0, 0, 0, 0, 0, 0, 0, 0, 0, 0, 0, 0, 0, 0, 4, 4, 4, 0, 8, 9, 2, 0, 9,
                                      8, 5, 0, 0, 6, 2, 6, 1, 6, 1, 6, 9, 4, 5, 2, 6, 6, 7, 2, 3, 6, 3, 2, 8, 1, 2, 5>>, -52)
                 /\ P(<<".", "8">>) =>
                      r.port = Port(FALSE,
                                    <<8, 0, 0, 0, 0, 0, 0, 0, 0, 0, 0, 0, 0, 0, 0, 0, 4, 4, 4, 0, 8, 9, 2, 0, 9, 8,
                                      5, 0, 0, 6, 2, 6, 1, 6, 1, 6, 9, 4, 5, 2, 6, 6, 7, 2, 3, 6, 3, 2, 8, 1, 2, 5>>, -52)
                 /\ P(<<"-", ".", "1">>) =>
                      r.port = Port(TRUE,
                                    <<1, 0, 0, 0, 0, 0, 0, 0, 0, 0, 0, 0, 0, 0, 0, 0, 0, 5, 5, 5, 1, 1, 1, 5, 1, 2,
                                      3, 1, 2, 5, 7, 8, 2, 7, 0, 2, 1, 1, 8, 1, 5, 8, 3, 4, 0, 4, 5, 4, 1, 0, 1, 5, 6, 2, 5>>, -55)
                 /\ P(<<"1", "2", ".", "5", "0">>) => r.port = Port(FALSE, <<1, 2, 5>>, -1)
                 /\ P(InfinityText) => r.port = Inf(FALSE)
                 /\ P(<<"-">> \o InfinityText) => r.port = Inf(TRUE)
                 /\ P(<<"2", "e", "3", "0", "8">>) => r.port = Inf(FALSE)
                 /\ P(<<"1", "e", "3", "0", "8">>) =>
                      /\ r.port.kind = "num" /\ ~r.port.neg /\ r.port.exp = 0
                      /\ Len(r.port.digits) = 309
                      /\ SubSeq(r.port.digits, 1, 30) =
                           <<1, 0, 0, 0, 0, 0, 0, 0, 0, 0, 0, 0, 0, 0, 0, 0, 0, 1, 0, 9, 7, 9, 0, 6, 3, 6, 2, 9, 4, 4>>
                 /\ P(NearMaxText) => r.port = Port(FALSE, MaxValueDigits, 0)
                 /\ P(<<"-">> \o NearMaxText) => r.port = Port(TRUE, MaxValueDigits, 0)
                 /\ P(<<"3", "e", "-", "3", "2", "4">>) =>
                      r.port = Port(FALSE, MinValueDigits, -1074)

\* C8: getServerConfig(isStdioMode) throws and returns no config when
\* FIGMA_API_KEY is absent (unset or empty); otherwise it returns the key and
\* port 0 in stdio mode whatever PORT is, and outside stdio mode the number PORT
\* parses to when that is a non-zero number and 3000 otherwise (PORT unset,
\* empty, blank, non-numeric or "0"). The call changes no state but its result.
C8_GetServerConfig ==
  /\ []C8_Result
  /\ [][UNCHANGED <<env, startupVars, gatewayVars, inv>>]_vars

\* C8 witness: stdio mode with the credential and a numeric PORT, port 0
C8_Witness ==
  /\ cfgCall.called
  /\ cfgCall.isStdioMode
  /\ Truthy(env.FIGMA_API_KEY)
  /\ env.PORT = Str(<<"8", "0">>)
  /\ cfgCall.result.port = IntNum(0)

\* =================================================================
\* index.ts: the module body and startServer
\* =================================================================
InitStartup ==
  /\ env \in [AZTP_API_KEY : KeyValues, MCP_NAME : KeyValues,
              FIGMA_API_KEY : KeyValues, SERVER_MODE : ModeValues,
              PORT : {Undefined}]
  /\ cfgCall = NoCall
  /\ IdleStartup
  /\ IdleGateway
  /\ inv = NoInvocation

\* an uncaught top-level throw ends the process with status 1
Throw(message) ==
  /\ pc' = "exited"
  /\ exitCode' = 1
  /\ startupError' = message
  /\ UNCHANGED <<serverMode, transport, gatewaysBuilt>>

\* console.error("Failed to start server:", error); process.exit(1)
FailStart(mode, message) ==
  /\ pc' = "exited"
  /\ exitCode' = 1
  /\ startupError' = message
  /\ serverMode' = mode

\* index.ts 15-28: the credential checks and aztp.default.initialize
ModuleBody ==
  /\ pc = "load"
  /\ IF Falsy(env.AZTP_API_KEY)
     THEN Throw(<<"AZTP_API_KEY environment variable is not set">>)
     ELSE IF Falsy(env.MCP_NAME)
          THEN Throw(<<"MCP_NAME environment variable is not set">>)
          ELSE /\ pc' = "startServer"
               /\ UNCHANGED <<serverMode, transport, exitCode, startupError,
                              gatewaysBuilt>>
  /\ UNCHANGED <<env, cfgCall, gatewayVars, inv>>

\* the "http" case falling out of the switch without throwing
StartServerSilentHttpMutant ==
  /\ pc = "startServer"
  /\ LET mode == OrElse(env.SERVER_MODE, STDIO)
     IN IF mode = STDIO
        THEN /\ transport' = "constructed"
             /\ pc' = "secureConnect"
             /\ serverMode' = mode
             /\ UNCHANGED <<exitCode, startupError>>
        ELSE IF mode = HTTP
             THEN /\ pc' = "running"
                  /\ serverMode' = mode
                  /\ UNCHANGED <<transport, exitCode, startupError>>
             ELSE /\ FailStart(mode, <<"Unsupported server mode: ">> \o mode)
                  /\ UNCHANGED transport
  /\ UNCHANGED <<env, cfgCall, gatewaysBuilt, gatewayVars, inv>>

\* index.ts 30-50: startServer up to its await (stdio) or its throw, the
\* throw caught at 51-54
StartServer ==
  /\ pc = "startServer"
  /\ LET mode == OrElse(env.SERVER_MODE, STDIO)
     IN IF mode = STDIO
        THEN /\ transport' = "constructed"
             /\ pc' = "secureConnect"
             /\ serverMode' = mode
             /\ UNCHANGED <<exitCode, startupError>>
        ELSE IF mode = HTTP
             THEN /\ FailStart(mode, <<"HTTP server mode not yet implemented">>)
                  /\ UNCHANGED transport
             ELSE /\ FailStart(mode, <<"Unsupported server mode: ">> \o mode)
                  /\ UNCHANGED transport
  /\ UNCHANGED <<env, cfgCall, gatewaysBuilt, gatewayVars, inv>>

\* index.ts 37-44: client.secureConnect(transport, mcpName, ...) resolves; the
\* transport it was given is the only object startServer hands over
SecureConnectResolves ==
  /\ pc = "secureConnect"
  /\ pc' = "running"
  /\ transport' = "connected"
  /\ UNCHANGED <<env, serverMode, exitCode, startupError, gatewaysBuilt, cfgCall,
                 gatewayVars, inv>>

\* index.ts 37-54: client.secureConnect rejects, caught by the catch block
SecureConnectRejects ==
  /\ pc = "secureConnect"
  /\ FailStart(serverMode, <<"secureConnect failed">>)
  /\ UNCHANGED <<env, transport, gatewaysBuilt, cfgCall, gatewayVars, inv>>

NextStartup ==
  \/ ModuleBody
  \/ StartServer
  \/ SecureConnectResolves
  \/ SecureConnectRejects

SpecStartup == InitStartup /\ [][NextStartup]_vars

StartupSettled == pc \in {"exited", "secureConnect", "running"}

CredentialsForTransport == Truthy(env.AZTP_API_KEY) /\ Truthy(env.MCP_NAME)

\* C2 (as claimed): with FIGMA_API_KEY, AZTP_API_KEY or MCP_NAME absent no
\* transport is constructed or connected and startup ends with a non-zero exit.
C2_NoChannelWithoutCredentials ==
  (Falsy(env.FIGMA_API_KEY) \/ Falsy(env.AZTP_API_KEY) \/ Falsy(env.MCP_NAME)) =>
    /\ transport = "none"
    /\ pc # "running"
    /\ StartupSettled => (pc = "exited" /\ exitCode # 0)

\* C3 (as claimed): once stdio startup has completed without error a
\* FigmaMcpServer has been constructed and attached to the opened channel.
C3_GatewayAttachedAfterStartup ==
  (pc = "running" /\ serverMode = STDIO) =>
    (gatewaysBuilt > 0 /\ gw.created /\ gw.channel # "none")

\* C5: with SERVER_MODE "http" startup fails with the not-implemented error, and
\* with any other non-empty value but "stdio" it fails with an error naming the
\* mode; both exit with status 1 and construct no transport. Startup never ends
\* without either a transport or a non-zero exit. An unset (or empty) selector
\* is stdio.
C5_UnsupportedModesFail ==
  /\ pc = "running" => transport = "connected"
  /\ (StartupSettled /\ CredentialsForTransport) =>
       /\ env.SERVER_MODE = Str(HTTP) =>
            /\ pc = "exited" /\ exitCode = 1 /\ transport = "none"
            /\ startupError = <<"HTTP server mode not yet implemented">>
       /\ (Truthy(env.SERVER_MODE) /\ env.SERVER_MODE.val \notin {STDIO, HTTP}) =>
            /\ pc = "exited" /\ exitCode = 1 /\ transport = "none"
            /\ startupError = <<"Unsupported server mode: ">> \o env.SERVER_MODE.val
       /\ Falsy(env.SERVER_MODE) => (serverMode = STDIO /\ transport # "none")
  /\ (StartupSettled /\ ~CredentialsForTransport) =>
       (pc = "exited" /\ exitCode = 1 /\ transport = "none")

\* C5 witness: an unknown mode has been refused with the error naming it
C5_Witness ==
  /\ env.SERVER_MODE = Str(SSE)
  /\ pc = "exited"
  /\ exitCode = 1
  /\ startupError = <<"Unsupported server mode: ", "s", "s", "e">>

\* =================================================================
\* index.ts 90-223: the two tool handlers of a connected gateway
\* =================================================================
ToolNames == {"get_figma_data", "download_figma_images"}

ConnectedGateway == [created |-> TRUE, figmaApiKey |-> <<"k">>, tools |-> ToolNames,
                     channel |-> "stdio", httpServer |-> 0, sseTransport |-> "null"]

\* ---- values a download outcome can be: a string, null, or a boolean
StrVal(s) == [t |-> "string", s |-> s, b |-> FALSE]

NullVal == [t |-> "null", s |-> <<>>, b |-> FALSE]

FalseVal == [t |-> "boolean", s |-> <<>>, b |-> FALSE]

UndefinedVal == [t |-> "undefined", s |-> <<>>, b |-> FALSE]

ValTruthy(x) == (x.t = "string" /\ x.s # <<>>) \/ (x.t = "boolean" /\ x.b)

\* String(x) as Array.prototype.join applies it: null and undefined are empty
JoinItem(x) ==
  IF x.t = "string" THEN x.s
  ELSE IF x.t = "boolean" THEN (IF x.b THEN <<"true">> ELSE <<"false">>)
  ELSE <<>>

RECURSIVE JoinVals(_, _)
JoinVals(xs, sep) ==
  IF xs = <<>> THEN <<>>
  ELSE IF Len(xs) = 1 THEN JoinItem(xs[1])
  ELSE JoinItem(xs[1]) \o sep \o JoinVals(Tail(xs), sep)

DigitChar(d) ==
  CASE d = 0 -> "0" [] d = 1 -> "1" [] d = 2 -> "2" [] d = 3 -> "3"
    [] d = 4 -> "4" [] d = 5 -> "5" [] d = 6 -> "6" [] d = 7 -> "7"
    [] d = 8 -> "8" [] d = 9 -> "9"

\* `${n}` for a non-negative integer n
RECURSIVE NumToString(_)
NumToString(n) ==
  IF n < 10 THEN <<DigitChar(n)>>
  ELSE NumToString(n \div 10) \o <<DigitChar(n % 10)>>

\* ---- values a promise can be rejected with (anything can be thrown):
\* name and message are the properties of that name, a text or undefined
Thrown(t, name, message, text) == [t |-> t, name |-> name, message |-> message, text |-> text]

\* an Error object (or one of a subclass) with the name and message it resolves
ThrownError(name, message) == Thrown("Error", name, message, <<>>)

\* a string
ThrownString(text) == Thrown("string", Undefined, Undefined, text)

\* an object that inherits Object.prototype.toString, with or without a
\* message property
ThrownObject(message) == Thrown("object", Undefined, message, <<>>)

ThrownNull == Thrown("null", Undefined, Undefined, <<>>)

ThrownUndefined == Thrown("undefined", Undefined, Undefined, <<>>)

\* a Symbol
ThrownSymbol == Thrown("symbol", Undefined, Undefined, <<>>)

NoError == Thrown("none", Undefined, Undefined, <<>>)

\* Error.prototype.toString: an undefined name is "Error", an undefined
\* message is empty; an empty name gives the message, an empty message the name
ErrorToString(e) ==
  LET name == IF e.name.set THEN e.name.val ELSE <<"Error">>
      msg == IF e.message.set THEN e.message.val ELSE <<>>
  IN IF name = <<>> THEN msg
     ELSE IF msg = <<>> THEN name
     ELSE name \o <<": ">> \o msg

\* `${error}`: ToString(error), which throws a TypeError for a Symbol
TemplateString(e) ==
  CASE e.t = "Error" -> [threw |-> FALSE, text |-> ErrorToString(e)]
    [] e.t = "string" -> [threw |-> FALSE, text |-> e.text]
    [] e.t = "object" -> [threw |-> FALSE, text |-> <<"[object Object]">>]
    [] e.t = "null" -> [threw |-> FALSE, text |-> <<"null">>]
    [] e.t = "undefined" -> [threw |-> FALSE, text |-> <<"undefined">>]
    [] e.t = "symbol" -> [threw |-> TRUE, text |-> <<>>]

\* ---- promises of the API client
Pending == [state |-> "pending", value |-> <<>>, error |-> NoError]

Fulfilled(v) == [state |-> "fulfilled", value |-> v, error |-> NoError]

Rejected(e) == [state |-> "rejected", value |-> <<>>, error |-> e]

NoResult == [thrown |-> FALSE, isError |-> FALSE, content |-> <<>>]

TextResult(text) ==
  [thrown |-> FALSE, isError |-> FALSE, content |-> <<[type |-> "text", text |-> text]>>]

ErrorResult(text) ==
  [thrown |-> FALSE, isError |-> TRUE, content |-> <<[type |-> "text", text |-> text]>>]

\* the catch block throws in its turn: the handler's promise is rejected
Propagated == [thrown |-> TRUE, isError |-> FALSE, content |-> <<>>]

\* ---- String.prototype.endsWith
endsWith(s, suffix) ==
  /\ Len(s) >= Len(suffix)
  /\ SubSeq(s, Len(s) - Len(suffix) + 1, Len(s)) = suffix

DotSvg == <<".", "s", "v", "g">>

\* String.prototype.includes in place of endsWith
fileTypeIncludesMutant(fileName) ==
  IF \E i \in 1..Len(fileName) :
       i + Len(DotSvg) - 1 <= Len(fileName)
       /\ SubSeq(fileName, i, i + Len(DotSvg) - 1) = DotSvg
  THEN "svg" ELSE "png"

\* index.ts 192
fileTypeOf(fileName) == IF endsWith(fileName, DotSvg) THEN "svg" ELSE "png"

\* index.ts 181-185
imageFillsOf(nodes) == SelectSeq(nodes, LAMBDA n : Truthy(n.imageRef))

\* index.ts 187-193
renderRequestsOf(nodes) ==
  LET kept == SelectSeq(nodes, LAMBDA n : ~Truthy(n.imageRef))
  IN [i \in 1..Len(kept) |->
        [nodeId |-> kept[i].nodeId, fileName |-> kept[i].fileName,
         fileType |-> fileTypeOf(kept[i].fileName)]]

\* Array.prototype.find with the predicate (success) => !success
findFailed(downloads) ==
  IF \E i \in 1..Len(downloads) : ~ValTruthy(downloads[i])
  THEN downloads[CHOOSE i \in 1..Len(downloads) :
                   /\ ~ValTruthy(downloads[i])
                   /\ \A j \in 1..(i - 1) : ValTruthy(downloads[j])]
  ELSE UndefinedVal

\* index.ts 203: !downloads.find((success) => !success)
saveSuccess(downloads) == ~ValTruthy(findFailed(downloads))

\* index.ts 197-213: the then-branch of Promise.all and the returned envelope
downloadEnvelope(f, r) ==
  LET downloads == f \o r
  IN TextResult(IF saveSuccess(downloads)
                THEN <<"Success, ">> \o NumToString(Len(downloads))
                       \o <<" images downloaded: ">> \o JoinVals(downloads, <<", ">>)
                ELSE <<"Failed">>)

\* index.ts 214-220
downloadCatch(e) ==
  IF TemplateString(e).threw THEN Propagated
  ELSE ErrorResult(<<"Error downloading images: ">> \o TemplateString(e).text)

\* index.ts 141-147
fetchCatch(e) ==
  IF TemplateString(e).threw THEN Propagated
  ELSE ErrorResult(<<"Error fetching file: ">> \o TemplateString(e).text)

\* Promise.race semantics: settled as soon as one input settles
promiseAllRaceMutant(f, r) ==
  IF f.state = "rejected" \/ r.state = "rejected" THEN "rejected"
  ELSE IF f.state = "fulfilled" \/ r.state = "fulfilled" THEN "fulfilled"
  ELSE "pending"

\* index.ts 197: Promise.all([fillDownloads, renderDownloads]) is rejected once
\* one input is, fulfilled once both are
promiseAll(f, r) ==
  IF f.state = "rejected" \/ r.state = "rejected" THEN "rejected"
  ELSE IF f.state = "fulfilled" /\ r.state = "fulfilled" THEN "fulfilled"
  ELSE "pending"

UpperHex == <<"0", "1", "2", "3", "4", "5", "6", "7", "8", "9", "A", "B", "C", "D", "E", "F">>

LowerHex == <<"0", "1", "2", "3", "4", "5", "6", "7", "8", "9", "a", "b", "c", "d", "e", "f">>

\* the four hex digits of the code unit n, taken from hex
HexDigits(n, hex) ==
  <<hex[n \div 4096 + 1], hex[((n \div 256) % 16) + 1], hex[((n \div 16) % 16) + 1],
    hex[(n % 16) + 1]>>

\* the token "U+XXXX" of the code unit n
UnitToken(n) ==
  "U+" \o HexDigits(n, UpperHex)[1] \o HexDigits(n, UpperHex)[2]
       \o HexDigits(n, UpperHex)[3] \o HexDigits(n, UpperHex)[4]

\* the code units JSON.stringify may escape as \uXXXX: the control characters
\* U+0000..U+001F and the surrogates U+D800..U+DBFF (high), U+DC00..U+DFFF (low)
ControlTokens == {UnitToken(n) : n \in 0..31}

HighSurrogates == {UnitToken(n) : n \in 55296..56319}

LowSurrogates == {UnitToken(n) : n \in 56320..57343}

\* the code unit of a character QuoteJSONString treats specially; -1 for any
\* other character
CodeUnit(c) ==
  CASE c = "\t" -> 9
    [] c = "\n" -> 10
    [] c = "\f" -> 12
    [] c = "\r" -> 13
    [] c = "\"" -> 34
    [] c = "\\" -> 92
    [] c \in ControlTokens -> CHOOSE n \in 0..31 : UnitToken(n) = c
    [] c \in HighSurrogates \cup LowSurrogates ->
         CHOOSE n \in 55296..57343 : UnitToken(n) = c
    [] OTHER -> -1

\* QuoteJSONString of one code unit that is not half of a surrogate pair: the
\* short escapes, \uXXXX in lower case for the other control characters and
\* the surrogates, the character itself otherwise
EscapeChar(c) ==
  CASE CodeUnit(c) = -1 -> <<c>>
    [] CodeUnit(c) = 8 -> <<"\\", "b">>
    [] CodeUnit(c) = 9 -> <<"\\", "t">>
    [] CodeUnit(c) = 10 -> <<"\\", "n">>
    [] CodeUnit(c) = 12 -> <<"\\", "f">>
    [] CodeUnit(c) = 13 -> <<"\\", "r">>
    [] CodeUnit(c) = 34 -> <<"\\", "\"">>
    [] CodeUnit(c) = 92 -> <<"\\", "\\">>
    [] OTHER -> <<"\\", "u">> \o HexDigits(CodeUnit(c), LowerHex)

\* s[i] is half of a surrogate pair: a high surrogate followed by a low one,
\* or a low surrogate that follows a high one
Paired(s, i) ==
  \/ s[i] \in HighSurrogates /\ i < Len(s) /\ s[i + 1] \in LowSurrogates
  \/ s[i] \in LowSurrogates /\ i > 1 /\ s[i - 1] \in HighSurrogates

\* the escapes of s[lo..hi], one half after the other; a surrogate pair is kept
RECURSIVE Escaped(_, _, _)
Escaped(s, lo, hi) ==
  IF lo > hi THEN <<>>
  ELSE IF lo = hi THEN (IF Paired(s, lo) THEN <<s[lo]>> ELSE EscapeChar(s[lo]))
  ELSE Escaped(s, lo, (lo + hi) \div 2) \o Escaped(s, (lo + hi) \div 2 + 1, hi)

\* JSON.stringify of a string, one token per character
Quoted(s) == <<"\"">> \o Escaped(s, 1, Len(s)) \o <<"\"">>

RECURSIVE JoinText(_, _)
JoinText(xs, sep) ==
  IF xs = <<>> THEN <<>>
  ELSE IF Len(xs) = 1 THEN xs[1]
  ELSE xs[1] \o sep \o JoinText(Tail(xs), sep)

\* index.ts 130-140; a node and the globalVars are string-valued here
fetchEnvelope(file) ==
  LET nodesJson == <<"[">> \o JoinText([i \in 1..Len(file.nodes) |-> Quoted(file.nodes[i])],
                                        <<",">>) \o <<"]">>
      metadataJson == <<"{\n  \"name\": ">> \o Quoted(file.name) \o <<"\n}">>
      globalVarsJson == Quoted(file.globalVars)
  IN TextResult(<<"{ \"metadata\": ">> \o metadataJson \o <<", \"nodes\": ">> \o nodesJson
                  \o <<", \"globalVars\": ">> \o globalVarsJson \o <<" }">>)

NotIssued == [state |-> "none", value |-> <<>>, error |-> NoError]

\* ---- inputs of the handlers (arguments that passed the zod schemas)
FileKeys == {"abc123"}

LocalPaths == {"/tmp/out"}

NodeIdArgs == {Undefined, Str(<<>>), Str(<<"1:2">>)}

DepthArgs == {[set |-> FALSE, val |-> 0], [set |-> TRUE, val |-> 0], [set |-> TRUE, val |-> 2]}

ImageRefs == {Undefined, Str(<<>>), Str(<<"r">>)}

FileNames == {<<"a", ".", "s", "v", "g">>, <<"s", "v", "g">>,
              <<".", "s", "v", "g", ".", "p", "n", "g">>}

NodeArgs == [nodeId : {"1:2"}, imageRef : ImageRefs, fileName : FileNames]

NodeLists == UNION {[1..k -> NodeArgs] : k \in 0..MaxNodes}

\* ---- what the API client (services/figma.js) answers
Errors == {ThrownError(Str(<<"Error">>), Str(<<"Request failed">>)),
           ThrownError(Str(<<"TypeError">>), Str(<<>>)),
           ThrownError(Str(<<>>), Str(<<"Request failed">>)),
           ThrownError(Undefined, Undefined),
           ThrownString(<<"timeout">>),
           ThrownObject(Str(<<"Request failed">>)),
           ThrownObject(Undefined),
           ThrownNull,
           ThrownUndefined,
           ThrownSymbol}

\* strings of a document: plain, and with characters JSON.stringify escapes
DocStrings == {<<"D", "o", "c">>, <<>>, <<"a", "\"", "b", "\\">>,
               <<"\n", "\t", "\r", "\f", "U+0008">>,
               <<"U+0000", "U+0001", "U+000B", "U+001B", "U+001F">>,
               <<"U+D800", "U+DC00", "U+D83D", "U+DE00", "U+DFFF", "U+D83D", "x">>,
               <<"/", "U+007F", "U+2028", "'">>}

NodeStrings == {<<"1", ":", "2">>, <<"\"", "3", "\"">>}

Files == [name : DocStrings,
          nodes : {<<>>} \cup {<<n>> : n \in NodeStrings}
                    \cup {<<n, m>> : n \in NodeStrings, m \in NodeStrings},
          globalVars : {<<"{", "}">>}]

SavedPath(localPath, fileName) == <<localPath, "/">> \o fileName

ItemOutcomes(localPath, req) ==
  {StrVal(SavedPath(localPath, req.fileName)), NullVal, FalseVal, StrVal(<<>>)}

RECURSIVE OutcomeSeqs(_, _)
OutcomeSeqs(localPath, reqs) ==
  IF reqs = <<>> THEN {<<>>}
  ELSE {<<x>> \o rest : x \in ItemOutcomes(localPath, Head(reqs)),
                        rest \in OutcomeSeqs(localPath, Tail(reqs))}

\* one outcome per request, in request order, or a rejection
BatchOutcomes(localPath, reqs) ==
  {Fulfilled(v) : v \in OutcomeSeqs(localPath, reqs)} \cup {Rejected(e) : e \in Errors}

FetchOutcomes == {Fulfilled(f) : f \in Files} \cup {Rejected(e) : e \in Errors}

Init ==
  /\ env = [AZTP_API_KEY |-> Str(<<"k">>), MCP_NAME |-> Str(<<"n">>),
            FIGMA_API_KEY |-> Str(<<"k">>), SERVER_MODE |-> Undefined,
            PORT |-> Undefined]
  /\ cfgCall = NoCall
  /\ IdleStartup
  /\ gw = ConnectedGateway
  /\ logger = "channel"
  /\ servers = <<>>
  /\ connects = 0
  /\ stopsResolved = 0
  /\ served = 0
  /\ inv = NoInvocation

\* index.ts 114-127: get_figma_data up to its await
GetFigmaDataCall(fileKey, nodeId, depth) ==
  /\ inv.pc = "idle"
  /\ inv' = [pc |-> "awaiting", tool |-> "get_figma_data",
             args |-> [fileKey |-> fileKey, nodeId |-> nodeId, depth |-> depth],
             calls |-> <<IF Truthy(nodeId)
                         THEN [fn |-> "getNode", fileKey |-> fileKey,
                               nodeId |-> nodeId.val, depth |-> depth]
                         ELSE [fn |-> "getFile", fileKey |-> fileKey, depth |-> depth]>>,
             fetch |-> Pending, fill |-> NotIssued, render |-> NotIssued,
             result |-> NoResult]
  /\ UNCHANGED <<env, startupVars, cfgCall, gatewayVars>>

\* index.ts 124-147: getNode/getFile settles and the handler returns
FetchSettles(o) ==
  /\ inv.pc = "awaiting"
  /\ inv.tool = "get_figma_data"
  /\ inv' = [inv EXCEPT !.pc = "done", !.fetch = o,
                        !.result = IF o.state = "fulfilled"
                                   THEN fetchEnvelope(o.value)
                                   ELSE fetchCatch(o.error)]
  /\ UNCHANGED <<env, startupVars, cfgCall, gatewayVars>>

\* index.ts 179-197: download_figma_images up to its await; both batches are
\* issued by then
DownloadCall(fileKey, nodes, localPath) ==
  /\ inv.pc = "idle"
  /\ inv' = [pc |-> "awaiting", tool |-> "download_figma_images",
             args |-> [fileKey |-> fileKey, nodes |-> nodes, localPath |-> localPath],
             calls |-> <<[fn |-> "getImageFills", fileKey |-> fileKey,
                          items |-> imageFillsOf(nodes), localPath |-> localPath],
                         [fn |-> "getImages", fileKey |-> fileKey,
                          items |-> renderRequestsOf(nodes), localPath |-> localPath]>>,
             fetch |-> NotIssued, fill |-> Pending, render |-> Pending,
             result |-> NoResult]
  /\ UNCHANGED <<env, startupVars, cfgCall, gatewayVars>>

\* index.ts 197-220: the handler's continuation once a batch has settled
DownloadResume(i) ==
  IF i.pc # "awaiting" THEN i
  ELSE LET all == promiseAll(i.fill, i.render)
       IN IF all = "fulfilled"
          THEN [i EXCEPT !.pc = "done",
                         !.result = downloadEnvelope(i.fill.value, i.render.value)]
          ELSE IF all = "rejected"
               THEN [i EXCEPT !.pc = "done",
                              !.result = downloadCatch(IF i.fill.state = "rejected"
                                                       THEN i.fill.error
                                                       ELSE i.render.error)]
               ELSE i

\* getImageFills settles; the handler resumes if Promise.all settles with it
FillSettles(o) ==
  /\ inv.pc \in {"awaiting", "done"}
  /\ inv.tool = "download_figma_images"
  /\ inv.fill.state = "pending"
  /\ inv' = DownloadResume([inv EXCEPT !.fill = o])
  /\ UNCHANGED <<env, startupVars, cfgCall, gatewayVars>>

\* getImages settles; the handler resumes if Promise.all settles with it
RenderSettles(o) ==
  /\ inv.pc \in {"awaiting", "done"}
  /\ inv.tool = "download_figma_images"
  /\ inv.render.state = "pending"
  /\ inv' = DownloadResume([inv EXCEPT !.render = o])
  /\ UNCHANGED <<env, startupVars, cfgCall, gatewayVars>>

\* the envelope is handed to the channel; the gateway is ready for the next
Respond ==
  /\ inv.pc = "done"
  /\ inv' = NoInvocation
  /\ UNCHANGED <<env, startupVars, cfgCall, gatewayVars>>

\* what the k-th client call of the download in progress can answer
CallOutcomes(k) ==
  IF inv.pc # "idle" /\ inv.tool = "download_figma_images"
  THEN BatchOutcomes(inv.args.localPath, inv.calls[k].items)
  ELSE {}

Next ==
  \/ \E k \in FileKeys, n \in NodeIdArgs, d \in DepthArgs : GetFigmaDataCall(k, n, d)
  \/ \E o \in FetchOutcomes : FetchSettles(o)
  \/ \E k \in FileKeys, ns \in NodeLists, lp \in LocalPaths : DownloadCall(k, ns, lp)
  \/ \E o \in CallOutcomes(1) : FillSettles(o)
  \/ \E o \in CallOutcomes(2) : RenderSettles(o)
  \/ Respond

Spec == Init /\ [][Next]_vars

DownloadDone == inv.pc = "done" /\ inv.tool = "download_figma_images"

DownloadText == inv.result.content[1].text

\* the outcomes of both batches of a download whose batches both fulfilled
Outcomes == inv.fill.value \o inv.render.value

FailedCount == Cardinality({i \in 1..Len(Outcomes) : ~ValTruthy(Outcomes[i])})

\* C1 (as claimed): a download whose batches both came back reports "Failed"
\* exactly when at least one outcome is falsy (null, false or the empty
\* string), and the success text only when none is.
C1_FailedIffSomeItemFailed ==
  (DownloadDone /\ inv.fill.state = "fulfilled" /\ inv.render.state = "fulfilled") =>
    /\ ~inv.result.isError
    /\ (DownloadText = <<"Failed">>) <=> (FailedCount > 0)
    /\ (Len(DownloadText) > 0 /\ DownloadText[1] = "Success, ") <=> (FailedCount = 0)

\* the message a rejection value has: the message of an Error or object, a
\* string itself
HasMessage(e) == (e.t \in {"Error", "object"} /\ e.message.set) \/ e.t = "string"

MessageOf(e) == IF e.t = "string" THEN e.text ELSE e.message.val

\* the text ends with the message of the rejection value e, when it has one
CarriesMessage(text, e) ==
  HasMessage(e) =>
    /\ Len(text) >= Len(MessageOf(e))
    /\ SubSeq(text, Len(text) - Len(MessageOf(e)) + 1, Len(text)) = MessageOf(e)

C4_Envelope ==
  inv.pc = "done" =>
    /\ ~inv.result.thrown
    /\ Len(inv.result.content) = 1
    /\ inv.result.content[1].type = "text"
    /\ (inv.tool = "get_figma_data" /\ inv.fetch.state = "rejected") =>
         /\ inv.result.isError
         /\ inv.result.content[1].text[1] = "Error fetching file: "
         /\ CarriesMessage(inv.result.content[1].text, inv.fetch.error)
    /\ (inv.tool = "download_figma_images"
        /\ (inv.fill.state = "rejected" \/ inv.render.state = "rejected")) =>
         /\ inv.result.isError
         /\ inv.result.content[1].text[1] = "Error downloading images: "
         /\ \E p \in {inv.fill, inv.render} :
              p.state = "rejected" /\ CarriesMessage(inv.result.content[1].text, p.error)

\* C4 (as claimed): whatever value a client call of either tool is rejected
\* with, the handler returns (never throws) a result with isError set and one
\* text block whose text is the tool's prefix followed by text that ends in the
\* rejection's message; no step of a handler changes the gateway, so the next
\* invocation starts from the same gateway state.
C4_ErrorsBecomeEnvelopes ==
  /\ []C4_Envelope
  /\ [][UNCHANGED gatewayVars
        /\ (inv.pc = "done" /\ inv'.pc = "idle" => inv' = NoInvocation)]_vars

LastFour(s) == IF Len(s) >= 4 THEN SubSeq(s, Len(s) - 3, Len(s)) ELSE <<>>

\* C7: every node request of a download is in exactly one batch: the fill batch
\* when its imageRef is a non-empty string, the render batch otherwise, with
\* file type svg exactly when the file name ends in ".svg" and png otherwise;
\* and when all N outcomes are successes the text is "Success, N images
\* downloaded: ..." with N the number of node requests, which is the number of
\* outcomes of both batches together.
C7_CountAndPartition ==
  (inv.pc # "idle" /\ inv.tool = "download_figma_images") =>
    LET nodes == inv.args.nodes
        fills == inv.calls[1].items
        renders == inv.calls[2].items
        N == Len(nodes)
        fillIdx == {i \in 1..N : nodes[i].imageRef.set /\ nodes[i].imageRef.val # <<>>}
    IN /\ inv.calls[1].fn = "getImageFills" /\ inv.calls[2].fn = "getImages"
       /\ Len(fills) + Len(renders) = N
       /\ Len(fills) = Cardinality(fillIdx)
       /\ \A j \in 1..Len(fills) :
            \E i \in fillIdx : fills[j] = nodes[i]
       /\ \A j \in 1..Len(renders) :
            /\ \E i \in (1..N) \ fillIdx :
                 /\ renders[j].nodeId = nodes[i].nodeId
                 /\ renders[j].fileName = nodes[i].fileName
            /\ renders[j].fileType \in {"svg", "png"}
            /\ renders[j].fileType = "svg" <=>
                 LastFour(renders[j].fileName) = <<".", "s", "v", "g">>
       /\ (inv.pc = "done" /\ inv.fill.state = "fulfilled"
           /\ inv.render.state = "fulfilled" /\ FailedCount = 0) =>
            /\ ~inv.result.isError
            /\ Len(Outcomes) = N
            /\ N < 10 => /\ Len(DownloadText) >= 3
                         /\ SubSeq(DownloadText, 1, 3) =
                              <<"Success, ", DigitChar(N), " images downloaded: ">>

\* C7 witness: a fill request and a render request named ".svg.png" both
\* succeeded and the text counts 2
C7_Witness ==
  /\ DownloadDone
  /\ Len(inv.args.nodes) = 2
  /\ Len(inv.calls[1].items) = 1
  /\ Len(inv.calls[2].items) = 1
  /\ inv.calls[2].items[1].fileName = <<".", "s", "v", "g", ".", "p", "n", "g">>
  /\ inv.calls[2].items[1].fileType = "png"
  /\ inv.fill.state = "fulfilled"
  /\ inv.render.state = "fulfilled"
  /\ FailedCount = 0
  /\ DownloadText[2] = "2"

\* C9 (as claimed): a download has a result only once both batches have
\* completed, also when one of them rejects.
C9_ResultOnlyAfterBothBatches ==
  DownloadDone => (inv.fill.state # "pending" /\ inv.render.state # "pending")

\* C9 (amended): at the handler's await both batches have been issued; a
\* non-error result is returned only once both batches have fulfilled; an error
\* envelope is returned, or an error thrown, only once a batch has rejected, and
\* the error envelope may exist while the other batch is still pending.
C9_JoinIsFailFast ==
  (inv.pc # "idle" /\ inv.tool = "download_figma_images") =>
    /\ Len(inv.calls) = 2
    /\ inv.fill.state # "none" /\ inv.render.state # "none"
    /\ inv.pc = "awaiting" =>
         (inv.fill.state \in {"pending", "fulfilled"}
          /\ inv.render.state \in {"pending", "fulfilled"}
          /\ "pending" \in {inv.fill.state, inv.render.state})
    /\ (inv.pc = "done" /\ ~inv.result.isError /\ ~inv.result.thrown) =>
         (inv.fill.state = "fulfilled" /\ inv.render.state = "fulfilled")
    /\ (inv.pc = "done" /\ (inv.result.isError \/ inv.result.thrown)) =>
         "rejected" \in {inv.fill.state, inv.render.state}

\* C9 witness: the error envelope exists while the render batch is in flight
C9_Witness ==
  /\ DownloadDone
  /\ inv.result.isError
  /\ inv.fill.state = "rejected"
  /\ inv.render.state = "pending"

\* =================================================================
\* index.ts 75-88, 225-274: the lifecycle of one FigmaMcpServer
\* =================================================================
Channels == {"stdio", "sse"}

\* index.ts 258: listen accepts the integers 0..65535 and throws for any other
\* number
MaxPortNumber == 65535

\* the port is a JS number listen takes: both zeros, or a positive integer up
\* to MaxPortNumber
ValidPort(port) ==
  /\ port.kind = "num"
  /\ \/ port.digits = <<>>
     \/ /\ ~port.neg
        /\ port.exp >= 0
        /\ Len(port.digits) + port.exp <= Len(SmallDigits(MaxPortNumber))
        /\ DigitsInt(port.digits \o Zeros(port.exp)) <= MaxPortNumber

\* port 0 asks the system for any unused port
Ephemeral(port) == port.kind = "num" /\ port.digits = <<>>

\* ports the system hands out for port 0 (of the range 32768..60999)
EphemeralPorts == {32768, 32769, 60999}

\* the port arguments drawn: 0, 3000, a port the system may hand out, and the
\* numbers listen refuses: 70000, -1, 1.5, Infinity, NaN
Ports == {IntNum(0), IntNum(DefaultPort), IntNum(32768), IntNum(70000),
          Finite(TRUE, <<1>>, 0), Finite(FALSE, <<1, 5>>, -1), Inf(FALSE), NaN}

InitLifecycle ==
  /\ env = [AZTP_API_KEY |-> Str(<<"k">>), MCP_NAME |-> Str(<<"n">>),
            FIGMA_API_KEY |-> Str(<<"k">>), SERVER_MODE |-> Undefined,
            PORT |-> Undefined]
  /\ cfgCall = NoCall
  /\ IdleStartup
  /\ IdleGateway
  /\ inv = NoInvocation

Alive == exitCode = -1

\* a server of this process holds the port: its handle is bound to it, from
\* the listen call until it is closed. bound is the port asked for, or the
\* system's choice for a server started on port 0.
HoldsPort(srv, port) ==
  /\ srv.bound = port
  /\ srv.state \in {"starting", "listening"}

StopsPending ==
  LET RECURSIVE Sum(_)
      Sum(i) == IF i = 0 THEN 0 ELSE servers[i].closeCallbacks + Sum(i - 1)
  IN Sum(Len(servers))

\* index.ts 80-88: the constructor, which registers both tools
Construct(figmaApiKey) ==
  /\ Alive
  /\ ~gw.created
  /\ gw' = [gw EXCEPT !.created = TRUE, !.figmaApiKey = figmaApiKey, !.tools = ToolNames]
  /\ UNCHANGED <<env, startupVars, cfgCall, logger, servers, connects, stopsResolved,
                 served, inv>>

\* index.ts 225-227: connect(transport) up to its await: super.connect has
\* attached the transport, the Logger is still the one before
ConnectCall(ch) ==
  /\ Alive
  /\ gw.created
  /\ connects < MaxPendingConnects
  /\ gw' = [gw EXCEPT !.channel = ch]
  /\ connects' = connects + 1
  /\ UNCHANGED <<env, startupVars, cfgCall, logger, servers, stopsResolved, served, inv>>

\* index.ts 229-242: super.connect resolved; the Logger is pointed at the server
ConnectResumes ==
  /\ Alive
  /\ connects > 0
  /\ connects' = connects - 1
  /\ logger' = "channel"
  /\ UNCHANGED <<env, startupVars, cfgCall, gw, servers, stopsResolved, served, inv>>

\* index.ts 227: super.connect rejected (the transport failed to start);
\* connect() throws, the Logger is left as it was
ConnectRejects ==
  /\ Alive
  /\ connects > 0
  /\ connects' = connects - 1
  /\ UNCHANGED <<env, startupVars, cfgCall, gw, logger, servers, stopsResolved, served,
                 inv>>

\* index.ts 245-258: startHttpServer(port) puts a new server in
\* this.httpServer, whatever it held, and calls listen. listen throws for a
\* port it does not accept: the promise is rejected and the server is left
\* unbound. Port 0 binds to a port the system chooses among the unused ones.
\* For any other port the bind fails when the port is held by a server of
\* this process or by another process (~free). bound is NaN for a server that
\* holds no port. started is the state of the promise startHttpServer returned.
StartHttpServer(port, free, chosen) ==
  /\ Alive
  /\ gw.created
  /\ Len(servers) < MaxServers
  /\ Ephemeral(port) => \A i \in 1..Len(servers) : ~HoldsPort(servers[i], IntNum(chosen))
  /\ LET busy == /\ ~Ephemeral(port)
                 /\ ~free \/ \E i \in 1..Len(servers) : HoldsPort(servers[i], port)
         state == IF ~ValidPort(port) THEN "unbound"
                  ELSE IF busy THEN "failed" ELSE "starting"
     IN servers' = Append(servers,
                     [port |-> port, closeCallbacks |-> 0,
                      state |-> state,
                      bound |-> IF state # "starting" THEN NaN
                                ELSE IF Ephemeral(port) THEN IntNum(chosen) ELSE port,
                      started |-> IF ValidPort(port) THEN "pending" ELSE "rejected"])
  /\ gw' = [gw EXCEPT !.httpServer = Len(servers) + 1]
  /\ UNCHANGED <<env, startupVars, cfgCall, logger, connects, stopsResolved, served, inv>>

\* index.ts 258-261: the listen callback of server i resolves the promise
Listening(i) ==
  /\ Alive
  /\ servers[i].state = "starting"
  /\ servers' = [servers EXCEPT ![i].state = "listening", ![i].started = "resolved"]
  /\ UNCHANGED <<env, startupVars, cfgCall, gw, logger, connects, stopsResolved, served,
                 inv>>

\* index.ts 258: the 'error' event of a failed listen has no listener (reject
\* is never called): an uncaught exception ends the process with status 1
ListenError(i) ==
  /\ Alive
  /\ servers[i].state = "failed"
  /\ exitCode' = 1
  /\ UNCHANGED <<env, pc, serverMode, transport, startupError, gatewaysBuilt, cfgCall,
                 gatewayVars, inv>>

\* index.ts 265-274: stop() closes this.httpServer when there is one, waiting
\* for its close callback, and does nothing else
Stop ==
  /\ Alive
  /\ gw.created
  /\ stopsResolved + StopsPending < MaxStops
  /\ IF gw.httpServer # 0
     THEN /\ servers' = [servers EXCEPT
                           ![gw.httpServer].state =
                              IF @ \in {"starting", "listening"} THEN "closing" ELSE @,
                           ![gw.httpServer].closeCallbacks = @ + 1]
          /\ UNCHANGED stopsResolved
     ELSE /\ stopsResolved' = stopsResolved + 1
          /\ UNCHANGED servers
  /\ UNCHANGED <<env, startupVars, cfgCall, gw, logger, connects, served, inv>>

\* index.ts 268-271: the 'close' event of server i runs every close callback
\* registered on it, each resolving its stop(); a server that is not bound
\* emits it as well
Closed(i) ==
  /\ Alive
  /\ servers[i].state \in {"closing", "closed", "unbound"}
  /\ servers[i].closeCallbacks > 0
  /\ servers' = [servers EXCEPT ![i].state = IF @ = "closing" THEN "closed" ELSE @,
                                ![i].closeCallbacks = 0]
  /\ stopsResolved' = stopsResolved + servers[i].closeCallbacks
  /\ UNCHANGED <<env, startupVars, cfgCall, gw, logger, connects, served, inv>>

\* a tool invocation arriving on the attached channel reaches a handler
Dispatch ==
  /\ Alive
  /\ gw.created
  /\ gw.channel # "none"
  /\ served < MaxServed
  /\ served' = served + 1
  /\ UNCHANGED <<env, startupVars, cfgCall, gw, logger, servers, connects, stopsResolved,
                 inv>>

NextLifecycle ==
  \/ \E k \in {<<"k">>, <<>>} : Construct(k)
  \/ \E ch \in Channels : ConnectCall(ch)
  \/ ConnectResumes
  \/ ConnectRejects
  \/ \E p \in Ports, free \in BOOLEAN, chosen \in EphemeralPorts :
       StartHttpServer(p, free, chosen)
  \/ \E i \in 1..Len(servers) : Listening(i)
  \/ \E i \in 1..Len(servers) : ListenError(i)
  \/ Stop
  \/ \E i \in 1..Len(servers) : Closed(i)
  \/ Dispatch

SpecLifecycle == InitLifecycle /\ [][NextLifecycle]_vars

\* C10 (as claimed): when a stop() completes on a gateway whose connect() has
\* completed, the channel and every HTTP listener have been released, so that no invocation is served until a channel
\* is attached again.
C10_StopReleasesChannel ==
  [][(stopsResolved' > stopsResolved /\ connects = 0 /\ logger = "channel") =>
       /\ gw'.channel = "none"
       /\ \A i \in 1..Len(servers') : servers'[i].state \notin {"starting", "listening"}]_vars

====
